---- MODULE Spec2Model ----
(***************************************************************************)
(* Order-management backend (FastAPI handlers over a SQLAlchemy session    *)
(* bound to one SQLite file).  The persisted store is the four tables      *)
(* suppliers, items, units, orders.  Every request runs in its own session *)
(* (get_db): what a handler adds or flushes lives in the session's working *)
(* copy of the store and reaches the persisted store only at db.commit().  *)
(*                                                                         *)
(* String columns that are NULL are written "None".  The placeholder name  *)
(* "삭제됨" is written "DELETED", the approver "이지은" is written "LeeJieun",   *)
(* the default unit "개" is written "EA", the default payment schedule      *)
(* "미정" is written "TBD".                                                  *)
(***************************************************************************)
EXTENDS Integers, FiniteSets, Sequences, TLC

VARIABLES suppliers, items, units, orders, last, inflight

vars == <<suppliers, items, units, orders, last, inflight>>

\* ------------------------------------------------------------------ bounds
\* Largest primary key a reference table (suppliers, items, units) may hold.
MaxId == 2
\* Largest primary key the orders table may hold.
MaxOrderId == 2
\* Largest number of data rows (after the header) of an uploaded sheet.
MaxFileRows == 2
\* Largest number of ids in a bulk-delete list is the size of its id domain.

Names == {"a", "b"}
None == "None"
Slots == {"r1", "r2"}

\* ------------------------------------------------------------- the tables
\* models.Supplier / models.Item / models.Unit: id, name, is_deleted (the
\* remaining columns - contact, address, description, price, vat_excluded -
\* take part in no lookup and no constraint).
Ref(id, name, del) == [id |-> id, name |-> name, is_deleted |-> del]

\* models.Order: the three foreign keys, quantity (standing for the plain
\* columns quantity, price, total, client, notes, date, which every handler
\* treats alike), payment_cycle (a column no handler of main.py names), and
\* the approval columns.
Ord(id, s, i, u, q) ==
  [id |-> id, supplier_id |-> s, item_id |-> i, unit_id |-> u, quantity |-> q,
   payment_cycle |-> "monthly", is_deleted |-> FALSE,
   approval_status |-> None, approved_by |-> None, approved_at |-> None,
   rejection_reason |-> None]

\* The mapped attributes of models.Order: the names its constructor accepts.
OrderAttrs ==
  {"id", "supplier_id", "item_id", "unit_id", "quantity", "price", "total",
   "payment_cycle", "payment_method", "client", "notes", "date", "is_deleted",
   "approval_status", "approved_by", "approved_at", "rejection_reason",
   "supplier", "item", "unit"}

\* The persisted store as one value.
Store == [suppliers |-> suppliers, items |-> items, units |-> units, orders |-> orders]

Ids(tbl) == {r.id : r \in tbl}

Max(S) == CHOOSE x \in S : \A y \in S : y <= x

\* INTEGER PRIMARY KEY without AUTOINCREMENT: the next rowid is max + 1.
NewId(tbl) == IF tbl = {} THEN 1 ELSE Max(Ids(tbl)) + 1

\* Column(Integer, primary_key=True): no two rows of a table share an id.
PrimaryKeyOk(tbl) == \A r1 \in tbl, r2 \in tbl : r1.id = r2.id => r1 = r2

\* Column(String, unique=True): no two rows of a reference table share a
\* name, whatever their is_deleted flag.
UniqueNameOk(tbl) == \A r1 \in tbl, r2 \in tbl : r1.name = r2.name => r1 = r2

\* query(Model).filter(Model.name == name).first()
ByName(tbl, name) == {r \in tbl : r.name = name}

\* query(Model).filter(Model.id == id).first()
ById(tbl, id) == {r \in tbl : r.id = id}

\* The declarative constructor: a keyword that is no mapped attribute of the
\* class raises TypeError.
CtorOk(attrs, kwargs) == kwargs \subseteq attrs

\* ----------------------------------------------------------- the session
\* db.commit(): the session's working copy becomes the persisted store.
Commit(work) == work

\* A rollback that keeps what the session had flushed.
RollbackKeepsFlushed(before, work) == work

\* db.rollback(): everything added or flushed since the request began is
\* undone; the persisted store is the one the request found.
Rollback(before, work) == before

\* A close that keeps what the session had flushed.
CloseKeepsFlushed(before, work) == work

\* get_db's finally: db.close() releases the session; what was not committed
\* is discarded (sessionmaker(autocommit=False, autoflush=False)).
Close(before, work) == before

\* find-or-create by exact name, no is_deleted filter (update_order and
\* upload_orders): the row found, or a new row added and flushed at once so
\* that its generated id is known.
FindOrCreate(tbl, name) ==
  IF ByName(tbl, name) # {}
  THEN [tbl |-> tbl, id |-> (CHOOSE r \in ByName(tbl, name) : TRUE).id, created |-> 0]
  ELSE [tbl |-> tbl \cup {Ref(NewId(tbl), name, FALSE)}, id |-> NewId(tbl), created |-> 1]

\* ------------------------------------------------------ cells of a sheet
NoCell == [kind |-> "none"]
Num(n) == [kind |-> "num", v |-> n]
Str(s) == [kind |-> "str", s |-> s]
Digits == <<"0", "1", "2", "3", "4", "5", "6", "7", "8", "9">>
IsDigit(c) == \E k \in 1..10 : Digits[k] = c
DigitVal(c) == (CHOOSE k \in 1..10 : Digits[k] = c) - 1

\* value.replace(",", "")
RECURSIVE StripCommas(_)
StripCommas(s) ==
  IF s = <<>> THEN <<>>
  ELSE IF Head(s) = "," THEN StripCommas(Tail(s))
  ELSE <<Head(s)>> \o StripCommas(Tail(s))

RECURSIVE DigitsValue(_, _)
DigitsValue(s, acc) ==
  IF s = <<>> THEN acc ELSE DigitsValue(Tail(s), 10 * acc + DigitVal(Head(s)))

\* get_float_value: empty or missing is 0, a number passes through, a
\* formula ("=...") is 0, otherwise the text without commas is parsed and a
\* text that is no number is 0.  It never raises.
get_float_value(value) ==
  IF value.kind = "none" THEN 0
  ELSE IF value.kind = "num" THEN value.v
  ELSE IF value.s = <<>> THEN 0
  ELSE IF Head(value.s) = "=" THEN 0
  ELSE LET t == StripCommas(value.s)
       IN IF t # <<>> /\ \A k \in 1..Len(t) : IsDigit(t[k])
          THEN DigitsValue(t, 0)
          ELSE 0

\* A date cell: a datetime value, or a text split at its separator into
\* parts (sep "" is a text without separator).
Today == <<2026, 1, 1>>
DateTimeCell(ymd) == [kind |-> "datetime", sep |-> "", parts |-> ymd]
DateText(sep, parts) == [kind |-> "str", sep |-> sep, parts |-> parts]
ValidYMD(p) == Len(p) = 3 /\ p[1] \in 1..9999 /\ p[2] \in 1..12 /\ p[3] \in 1..31

\* The date fallback chain of upload_orders: a datetime is used as it is; a
\* text with "." is split in year, month, day; then the formats
\* %Y.%m.%d, %Y-%m-%d, %Y/%m/%d are tried; then today.  It never raises.
NormalizeDate(cell) ==
  IF cell.kind = "datetime" THEN cell.parts
  ELSE IF cell.kind = "none" THEN Today
  ELSE IF cell.sep = "." /\ ValidYMD(cell.parts) THEN cell.parts
  ELSE IF cell.sep \in {".", "-", "/"} /\ ValidYMD(cell.parts) THEN cell.parts
  ELSE Today

DateParses(cell) ==
  cell.kind = "datetime" \/ (cell.kind = "str" /\ cell.sep \in {".", "-", "/"} /\ ValidYMD(cell.parts))

NumParses(value) ==
  \/ value.kind = "num"
  \/ /\ value.kind = "str"
     /\ value.s # <<>>
     /\ LET t == StripCommas(value.s) IN t # <<>> /\ \A k \in 1..Len(t) : IsDigit(t[k])

\* A data row: date [0], supplier name [1], item name [2], unit price [3],
\* unit name [4]; name cells are a name or None.
Row(d, s, i, p, u) == [date |-> d, supplier |-> s, item |-> i, price |-> p, unit |-> u]
EmptyRow == Row(NoCell, None, None, NoCell, None)

\* any(row): some cell is truthy.
AnyCell(row) ==
  \/ row.date.kind # "none"
  \/ row.supplier # None
  \/ row.item # None
  \/ row.unit # None
  \/ (row.price.kind = "num" /\ row.price.v # 0)
  \/ (row.price.kind = "str" /\ row.price.s # <<>>)

\* ------------------------------------------------------- order handlers
\* The keywords create_order passes to models.Order(...).
CreateOrderKwargs ==
  {"supplier_id", "item_id", "unit_id", "quantity", "price", "total",
   "payment_schedule", "purchase_cycle", "client", "notes", "date"}

\* The keywords upload_orders passes to models.Order(...).
UploadOrderKwargs ==
  {"date", "supplier_id", "item_id", "unit_id", "price", "quantity", "total",
   "payment_schedule", "purchase_cycle", "client", "notes"}

\* The fields OrderResponse requires of every object it is built from.
OrderResponseRequired ==
  {"id", "supplier_id", "item_id", "unit_id", "quantity", "price", "total",
   "payment_schedule", "purchase_cycle", "client", "supplier", "item", "unit"}

Resp(status, detail, store) == [status |-> status, detail |-> detail, store |-> store]

\* POST /orders/: build the row, add, commit; any exception rolls back and
\* is answered 500.
create_order(st, body) ==
  IF ~CtorOk(OrderAttrs, CreateOrderKwargs)
  THEN Resp(500, "TypeError", Rollback(st, st))
  ELSE LET row == Ord(NewId(st.orders), body.supplier_id, body.item_id,
                      body.unit_id, body.quantity)
       IN Resp(200, "ok", Commit([st EXCEPT !.orders = @ \cup {row}]))

\* The rows of the sheet, one after the other: an empty row is skipped; for
\* the others the date is normalised, supplier, item and unit are found or
\* created (and flushed), and the order is built.  raised: an exception left
\* the loop; flushed: reference rows flushed so far; built: orders so far.
RECURSIVE UploadLoop(_, _, _, _)
UploadLoop(rows, work, built, flushed) ==
  IF rows = <<>>
  THEN [raised |-> FALSE, work |-> work, built |-> built, flushed |-> flushed]
  ELSE LET row == Head(rows) IN
       IF ~AnyCell(row)
       THEN UploadLoop(Tail(rows), work, built, flushed)
       ELSE LET order_date == NormalizeDate(row.date)
                s == FindOrCreate(work.suppliers, row.supplier)
                i == FindOrCreate(work.items, row.item)
                unit_name == IF row.unit = None THEN "EA" ELSE row.unit
                u == FindOrCreate(work.units, unit_name)
                work2 == [work EXCEPT !.suppliers = s.tbl, !.items = i.tbl,
                                      !.units = u.tbl]
                n == flushed + s.created + i.created + u.created
            IN IF ~CtorOk(OrderAttrs, UploadOrderKwargs)
               THEN [raised |-> TRUE, work |-> work2, built |-> built, flushed |-> n]
               ELSE UploadLoop(Tail(rows), work2,
                               Append(built, [supplier_id |-> s.id, item_id |-> i.id,
                                              unit_id |-> u.id,
                                              quantity |-> get_float_value(row.price),
                                              date |-> order_date]),
                               n)

\* db.add_all(orders): the built orders get the next ids in turn.
RECURSIVE AddAll(_, _)
AddAll(tbl, built) ==
  IF built = <<>> THEN tbl
  ELSE LET b == Head(built)
       IN AddAll(tbl \cup {Ord(NewId(tbl), b.supplier_id, b.item_id, b.unit_id, b.quantity)},
                 Tail(built))

\* POST /orders/upload.  file.xlsx: the filename ends in ".xlsx"; file.loads:
\* load_workbook reads the payload.
upload_orders(st, file) ==
  IF ~file.xlsx
  THEN [status |-> 400, detail |-> "Only .xlsx files are allowed",
        store |-> Close(st, st), flushed |-> 0, created |-> 0]
  ELSE IF ~file.loads
  THEN [status |-> 500, detail |-> "load_workbook", store |-> Rollback(st, st),
        flushed |-> 0, created |-> 0]
  ELSE LET r == UploadLoop(file.rows, st, <<>>, 0)
       IN IF r.raised
          THEN [status |-> 500, detail |-> "TypeError",
                store |-> Rollback(st, r.work), flushed |-> r.flushed, created |-> 0]
          ELSE [status |-> 200, detail |-> "Successfully uploaded",
                store |-> Commit([r.work EXCEPT !.orders = AddAll(@, r.built)]),
                flushed |-> r.flushed, created |-> Len(r.built)]

\* The relation of an order that read_orders replaces: the row is missing
\* or its is_deleted is true.
Broken(tbl, id) == \A r \in ById(tbl, id) : r.is_deleted

Placeholder == Ref(0, "DELETED", FALSE)

\* What the handler returns for one order: the order with its relations.
View(tbl, id) ==
  IF Broken(tbl, id) THEN [id |-> 0, name |-> "DELETED"]
  ELSE LET r == CHOOSE x \in ById(tbl, id) : TRUE IN [id |-> r.id, name |-> r.name]

\* GET /orders/: the non-deleted orders with their relations loaded; a
\* broken relation is assigned a new Supplier/Item/Unit(id=0), which makes
\* that object pending in the session and the order's foreign key 0 in the
\* session's working copy.  Nothing is flushed or committed; the session is
\* closed when the request ends.  The returned list is then validated
\* against List[OrderResponse].
read_orders(st) ==
  LET shown == {o \in st.orders : ~o.is_deleted}
      work == [suppliers |-> st.suppliers \cup
                 {Placeholder : o \in {x \in shown : Broken(st.suppliers, x.supplier_id)}},
               items |-> st.items \cup
                 {Placeholder : o \in {x \in shown : Broken(st.items, x.item_id)}},
               units |-> st.units \cup
                 {Placeholder : o \in {x \in shown : Broken(st.units, x.unit_id)}},
               orders |-> {IF o \in shown
                           THEN [o EXCEPT
                                   !.supplier_id = IF Broken(st.suppliers, @) THEN 0 ELSE @,
                                   !.item_id = IF Broken(st.items, @) THEN 0 ELSE @,
                                   !.unit_id = IF Broken(st.units, @) THEN 0 ELSE @]
                           ELSE o : o \in st.orders}]
      ret == {[id |-> o.id,
               supplier |-> View(st.suppliers, o.supplier_id),
               item |-> View(st.items, o.item_id),
               unit |-> View(st.units, o.unit_id)] : o \in shown}
      valid == ret = {} \/ OrderResponseRequired \subseteq OrderAttrs
  IN [status |-> IF valid THEN 200 ELSE 500,
      detail |-> IF valid THEN "ok" ELSE "ResponseValidationError",
      store |-> Close(st, work), ret |-> ret]

\* A bulk delete that gives up, deleting nothing, when an id names no order.
delete_orders_all_or_none(st, ids) ==
  IF ids \subseteq Ids(st.orders)
  THEN Resp(200, "Orders deleted successfully",
            Commit([st EXCEPT !.orders = {o \in @ : o.id \notin ids}]))
  ELSE Resp(200, "Orders deleted successfully", Rollback(st, st))

\* DELETE /orders/bulk-delete: each id that names an order is deleted, the
\* others are skipped; commit.
delete_orders(st, ids) ==
  Resp(200, "Orders deleted successfully",
       Commit([st EXCEPT !.orders = {o \in @ : o.id \notin ids}]))

\* A password check that lets every password through.
CheckPasswordAny(password) == TRUE

\* approval.password != "admin"
CheckPassword(password) == password = "admin"

\* The fixed approver name approve_order writes.
Approver == "LeeJieun"

\* POST /orders/{order_id}/approve
approve_order(st, order_id, password, now) ==
  IF ~CheckPassword(password)
  THEN Resp(401, "Invalid password", Close(st, st))
  ELSE IF ById(st.orders, order_id) = {}
  THEN Resp(404, "Order not found", Close(st, st))
  ELSE Resp(200, "Order approved successfully",
            Commit([st EXCEPT !.orders =
                      {IF o.id = order_id
                       THEN [o EXCEPT !.approval_status = "approved",
                                      !.approved_by = Approver,
                                      !.approved_at = now]
                       ELSE o : o \in @}]))

\* A reject that sets the status and the time and leaves the stored reason.
reject_order_keeps_reason(st, order_id, reason, now) ==
  IF ById(st.orders, order_id) = {}
  THEN Resp(404, "Order not found", Close(st, st))
  ELSE Resp(200, "Order rejected successfully",
            Commit([st EXCEPT !.orders =
                      {IF o.id = order_id
                       THEN [o EXCEPT !.approval_status = "rejected",
                                      !.approved_at = now]
                       ELSE o : o \in @}]))

\* POST /orders/{order_id}/reject
reject_order(st, order_id, reason, now) ==
  IF ById(st.orders, order_id) = {}
  THEN Resp(404, "Order not found", Close(st, st))
  ELSE Resp(200, "Order rejected successfully",
            Commit([st EXCEPT !.orders =
                      {IF o.id = order_id
                       THEN [o EXCEPT !.approval_status = "rejected",
                                      !.rejection_reason = reason,
                                      !.approved_at = now]
                       ELSE o : o \in @}]))

\* The value a persisted row holds in a column; None when the table has no
\* column of that name.
Column(row, key) == IF key \in DOMAIN row THEN row[key] ELSE None

\* obj.key = value on a loaded row: a mapped column is written by the next
\* flush; any other name becomes a plain attribute of the Python object and
\* never reaches the table.
SetAttr(row, key, value) ==
  IF key \in DOMAIN row THEN [row EXCEPT ![key] = value] ELSE row

\* PUT /orders/{order_id}: not-found, else supplier, item and unit are found
\* or created by name, the fields of the body are assigned (quantity stands
\* for the plain columns; payment_schedule and purchase_cycle are no columns
\* of models.Order, which has payment_cycle and payment_method), the foreign
\* keys are set; commit.
update_order(st, order_id, body) ==
  IF ById(st.orders, order_id) = {}
  THEN Resp(404, "Order not found", Close(st, st))
  ELSE LET s == FindOrCreate(st.suppliers, body.supplier_name)
           i == FindOrCreate(st.items, body.item_name)
           u == FindOrCreate(st.units, body.unit_name)
           set(o) ==
             LET o1 == SetAttr(o, "quantity", body.quantity)
                 o2 == SetAttr(o1, "payment_schedule", body.payment_schedule)
                 o3 == SetAttr(o2, "purchase_cycle", body.purchase_cycle)
             IN [o3 EXCEPT !.supplier_id = s.id, !.item_id = i.id, !.unit_id = u.id]
       IN Resp(200, "ok",
               Commit([suppliers |-> s.tbl, items |-> i.tbl, units |-> u.tbl,
                       orders |-> {IF o.id = order_id THEN set(o) ELSE o : o \in st.orders}]))

\* --------------------------------------------------- reference handlers
\* A handler's answer about one reference table.
RefResp(status, detail, tbl) == [status |-> status, detail |-> detail, tbl |-> tbl]

\* "models.Supplier.is_deleted is False": Python's identity test between the
\* column attribute and the constant False, evaluated before the query is
\* built.  The attribute is not the object False, so the criterion handed to
\* filter() is the constant False.
IsDeletedIsFalse == FALSE

\* A schema without UNIQUE(name): only the primary key is checked.
PrimaryKeyOnly(tbl) == PrimaryKeyOk(tbl)

\* The existence lookup of create_supplier / create_item / create_unit:
\* filter(name == name, <is_deleted is False>).first()
ExistingByName(tbl, name) == {r \in ByName(tbl, name) : IsDeletedIsFalse}

\* The flush of an INSERT or UPDATE: the table as written satisfies the
\* primary key and the UNIQUE(name) constraint, or IntegrityError is raised.
IntegrityOk(tbl) == PrimaryKeyOk(tbl) /\ UniqueNameOk(tbl)

\* POST /suppliers/, /items/, /units/ (the three handlers are one text):
\* conflict if the lookup finds a row; else add and commit; an exception
\* rolls back and is answered 400 "already_exists" when it is the UNIQUE
\* constraint that failed.
\* db.add(row); db.commit() of create_*, with the except branch.
create_ref_commit(tbl, name) ==
  LET work == tbl \cup {Ref(NewId(tbl), name, FALSE)}
  IN IF IntegrityOk(work)
     THEN RefResp(200, "ok", Commit(work))
     ELSE RefResp(400, "already_exists", Rollback(tbl, work))

create_ref(tbl, name) ==
  IF ExistingByName(tbl, name) # {}
  THEN RefResp(400, "already_exists", Rollback(tbl, tbl))
  ELSE create_ref_commit(tbl, name)

\* The row with the given id renamed (setattr(db_row, "name", value)).
Renamed(tbl, id, name) == {IF r.id = id THEN [r EXCEPT !.name = name] ELSE r : r \in tbl}

\* PUT /suppliers/{id}, /items/{id}: not-found, else the fields are set and
\* committed.  There is no try/except: an IntegrityError at commit leaves the
\* handler as an unhandled exception (500) and get_db closes the session.
update_ref(tbl, id, name) ==
  IF ById(tbl, id) = {}
  THEN RefResp(404, "not found", Close(tbl, tbl))
  ELSE LET work == Renamed(tbl, id, name)
       IN IF IntegrityOk(work)
          THEN RefResp(200, "ok", Commit(work))
          ELSE RefResp(500, "IntegrityError", Close(tbl, work))

\* The conflict lookup of update_unit:
\* filter(name == name, id != unit_id, <is_deleted is False>).first()
OtherByName(tbl, id, name) == {r \in ByName(tbl, name) : r.id # id /\ IsDeletedIsFalse}

\* PUT /units/{id}: not-found; conflict if the lookup finds another row; else
\* the fields are set and committed.  An HTTPException is re-raised as it
\* is; any other exception rolls back and is answered 500.
update_unit(tbl, id, name) ==
  IF ById(tbl, id) = {}
  THEN RefResp(404, "Unit not found", Close(tbl, tbl))
  ELSE IF OtherByName(tbl, id, name) # {}
  THEN RefResp(400, "already_exists", Close(tbl, tbl))
  ELSE LET work == Renamed(tbl, id, name)
       IN IF IntegrityOk(work)
          THEN RefResp(200, "ok", Commit(work))
          ELSE RefResp(500, "IntegrityError", Rollback(tbl, work))

\* A bulk delete that marks the rows instead of removing them.
bulk_soft_delete_ref(tbl, ids) ==
  RefResp(200, "deleted successfully",
          Commit({IF r.id \in ids THEN [r EXCEPT !.is_deleted = TRUE] ELSE r : r \in tbl}))

\* DELETE /suppliers/bulk-delete, /items/bulk-delete, /units/bulk-delete:
\* query.filter(id.in_(ids)).delete(); commit.  The rows are removed; no
\* is_deleted flag is set and no order is touched.
bulk_delete_ref(tbl, ids) ==
  RefResp(200, "deleted successfully", Commit({r \in tbl : r.id \notin ids}))

\* ------------------------------------------------------------- requests
\* The values requests are drawn from.
OrderIds == 1..(MaxOrderId + 1)
RefIds == 1..(MaxId + 1)
Passwords == {"admin", "guess"}
Times == {"26-01-01 10:00"}
Reasons == {"r1", "r2"}
Quantities == {1, 2}

SampleRows ==
  { EmptyRow,
    Row(DateText(".", <<2024, 3, 5>>), "a", "a", Str(<<"1", ",", "2">>), "a"),
    Row(DateText("", <<>>), "a", "b", Str(<<"=", "1">>), None),
    Row(DateTimeCell(<<2024, 3, 5>>), "b", "b", Str(<<"x">>), "b") }

RowSeqs == UNION {[1..n -> SampleRows] : n \in 0..MaxFileRows}

\* A file with another extension, a payload that is no workbook, and the
\* workbooks with the sample rows.
Files ==
  {[xlsx |-> FALSE, loads |-> TRUE, rows |-> <<>>],
   [xlsx |-> TRUE, loads |-> FALSE, rows |-> <<>>]}
  \cup {[xlsx |-> TRUE, loads |-> TRUE, rows |-> rows] : rows \in RowSeqs}

\* The non-empty data rows of a sheet.
DataRows(rows) == {k \in 1..Len(rows) : AnyCell(rows[k])}

\* Two data rows of the sheet carry the same supplier name.
SameSupplierTwice(rows) ==
  \E j \in DataRows(rows), k \in DataRows(rows) : j # k /\ rows[j].supplier = rows[k].supplier

\* Some data row has a date or a number that does not parse.
HasDefaulted(rows) ==
  \E k \in DataRows(rows) : ~DateParses(rows[k].date) \/ ~NumParses(rows[k].price)

\* ---------------------------------------------------------------- state
Idle == [pc |-> "idle", wrote |-> FALSE]

\* The stores the service may find in orders.db when it starts: every table
\* satisfies its primary key and UNIQUE(name); foreign keys are not enforced
\* (an order may name a reference row that is gone) and is_deleted may be set
\* on rows written by other means.
InitRefTables ==
  { {}, {Ref(1, "a", FALSE)}, {Ref(1, "a", TRUE)}, {Ref(1, "a", FALSE), Ref(2, "b", FALSE)} }

InitOrderTables ==
  { {}, {Ord(1, 1, 1, 1, 1)}, {Ord(1, 1, 1, 1, 1), Ord(2, 2, 1, 1, 2)},
    {Ord(1, 2, 1, 1, 1), [Ord(2, 1, 1, 1, 2) EXCEPT !.is_deleted = TRUE]} }

Init ==
  /\ suppliers \in InitRefTables
  /\ items \in {{Ref(1, "a", FALSE)}, {Ref(1, "a", TRUE)}}
  /\ units \in {{}, {Ref(1, "a", TRUE)}, {Ref(1, "a", FALSE), Ref(2, "b", FALSE)}}
  /\ orders \in InitOrderTables
  /\ last = [op |-> "start", status |-> 0, detail |-> "", obs |-> <<>>]
  /\ inflight = [s \in Slots |-> Idle]

\* The model's bound on the tables: primary keys within MaxId / MaxOrderId.
Bounded(st) ==
  /\ \A r \in st.suppliers \cup st.items \cup st.units : r.id <= MaxId
  /\ \A o \in st.orders : o.id <= MaxOrderId

SetStore(st) ==
  /\ suppliers' = st.suppliers
  /\ items' = st.items
  /\ units' = st.units
  /\ orders' = st.orders

\* The answer of the request that ended last, with what it was asked.
Answer(op, res, obs) ==
  last' = [op |-> op, status |-> res.status, detail |-> res.detail, obs |-> obs]

NoneInFlight == \A s \in Slots : inflight[s].pc = "idle"

\* ------------------------------------------------ order requests, one by one
UploadOrders ==
  \E file \in Files :
    \E res \in {upload_orders(Store, file)} :
      /\ NoneInFlight
      /\ Bounded(res.store)
      /\ SetStore(res.store)
      /\ Answer("upload_orders", res,
                [xlsx |-> file.xlsx, loads |-> file.loads,
                 datarows |-> Cardinality(DataRows(file.rows)),
                 twice |-> SameSupplierTwice(file.rows),
                 defaulted |-> HasDefaulted(file.rows),
                 flushed |-> res.flushed, created |-> res.created,
                 before |-> Cardinality(orders)])
      /\ UNCHANGED inflight

CreateOrder ==
  \E s \in RefIds, q \in Quantities :
    \E body \in {[supplier_id |-> s, item_id |-> 1, unit_id |-> 1, quantity |-> q]} :
    \E res \in {create_order(Store, body)} :
       /\ NoneInFlight
       /\ Bounded(res.store)
       /\ SetStore(res.store)
       /\ Answer("create_order", res, [body |-> body, before |-> Cardinality(orders)])
       /\ UNCHANGED inflight

ReadOrders ==
  \E res \in {read_orders(Store)} :
    /\ NoneInFlight
    /\ SetStore(res.store)
    /\ Answer("read_orders", res, [ret |-> res.ret])
    /\ UNCHANGED inflight

DeleteOrders ==
  \E ids \in SUBSET OrderIds :
    \E res \in {delete_orders(Store, ids)} :
      /\ NoneInFlight
      /\ SetStore(res.store)
      /\ Answer("delete_orders", res,
                [ids |-> ids, hit |-> ids \cap Ids(orders), miss |-> ids \ Ids(orders)])
      /\ UNCHANGED inflight

ApproveOrder ==
  \E id \in OrderIds, pw \in Passwords, now \in Times :
    \E res \in {approve_order(Store, id, pw, now)} :
      /\ NoneInFlight
      /\ SetStore(res.store)
      /\ Answer("approve_order", res, [order_id |-> id, password |-> pw])
      /\ UNCHANGED inflight

RejectOrder ==
  \E id \in OrderIds, reason \in Reasons, now \in Times :
    \E res \in {reject_order(Store, id, reason, now)} :
      /\ NoneInFlight
      /\ SetStore(res.store)
      /\ Answer("reject_order", res, [order_id |-> id, reason |-> reason])
      /\ UNCHANGED inflight

UpdateOrder ==
  \E id \in OrderIds, sn \in Names, n \in Names, un \in Names, q \in Quantities :
    \E body \in {[supplier_name |-> sn, item_name |-> n, unit_name |-> un, quantity |-> q,
                  payment_schedule |-> "weekly", purchase_cycle |-> "daily"]} :
    \E res \in {update_order(Store, id, body)} :
       /\ NoneInFlight
       /\ Bounded(res.store)
       /\ SetStore(res.store)
       /\ Answer("update_order", res, [order_id |-> id, body |-> body])
       /\ UNCHANGED inflight

Next ==
  \/ UploadOrders
  \/ CreateOrder
  \/ ReadOrders
  \/ DeleteOrders
  \/ ApproveOrder

Spec == Init /\ [][Next]_vars

\* ------------------------------------------------- claims, one request at a time
\* C1: an upload that ends in an error (wrong extension, unreadable
\* workbook, an exception while a row is processed or at the commit) leaves
\* the persisted store as it was: no order, and no supplier, item or unit
\* flushed for an earlier row, is persisted.
UploadAllOrNothing ==
  [][(last'.op = "upload_orders" /\ last'.status # 200) => Store' = Store]_vars

\* C1 witness: an upload failed after it had flushed reference rows.
UploadFailedAfterFlush ==
  last.op = "upload_orders" /\ last.status = 500 /\ last.obs.flushed > 0

\* C2: two data rows of one sheet that carry the same supplier name produce
\* two orders with the same supplier_id, and the suppliers table holds at
\* most one row of a name after the call.
SameNameRowsShareSupplier ==
  (last.op = "upload_orders" /\ last.obs.xlsx /\ last.obs.loads /\ last.obs.twice)
    => /\ last.status = 200
       /\ last.obs.created >= 2
       /\ \E o1 \in orders, o2 \in orders :
            o1.id # o2.id /\ o1.supplier_id = o2.supplier_id
       /\ UniqueNameOk(suppliers)

\* C3: an upload of a readable .xlsx workbook succeeds, persists as many new
\* orders as the sheet has non-empty data rows and reports that count, also
\* when a date or a number of a row does not parse.
UploadImportsEveryDataRow ==
  (last.op = "upload_orders" /\ last.obs.xlsx /\ last.obs.loads)
    => /\ last.status = 200
       /\ last.obs.created = last.obs.datarows
       /\ Cardinality(orders) = last.obs.before + last.obs.datarows

\* C5: approving with a password other than the shared secret is answered
\* 401 and changes no order, whatever the order id and the order's state.
WrongPasswordUnauthorized ==
  [][(last'.op = "approve_order" /\ last'.obs.password # "admin")
       => (last'.status = 401 /\ orders' = orders)]_vars

\* C5 witness: a wrong password was refused for an order that exists.
WrongPasswordRefused ==
  /\ last.op = "approve_order"
  /\ last.obs.password # "admin"
  /\ last.status = 401
  /\ ById(orders, last.obs.order_id) # {}

\* C6: a bulk delete of orders reports success and removes exactly the
\* orders whose ids are in the list; the other orders and every supplier,
\* item and unit stay as they were.
BulkDeleteExact ==
  [][last'.op = "delete_orders"
       => /\ last'.status = 200
          /\ orders' = {o \in orders : o.id \notin last'.obs.ids}
          /\ suppliers' = suppliers /\ items' = items /\ units' = units]_vars

\* C6 witness: the list mixed ids of orders with ids of no order, and an
\* order outside the list is still there.
BulkDeleteMixed ==
  /\ last.op = "delete_orders"
  /\ last.obs.hit # {}
  /\ last.obs.miss # {}
  /\ orders # {}

\* Some listed order has a relation that is missing or soft-deleted.
SomeBroken ==
  \E o \in orders :
    /\ ~o.is_deleted
    /\ \/ Broken(suppliers, o.supplier_id)
       \/ Broken(items, o.item_id)
       \/ Broken(units, o.unit_id)

\* C7: listing orders of which a relation is missing or soft-deleted answers
\* with the placeholder for that relation instead of failing, and persists
\* neither the placeholder (a row with id 0) nor a changed foreign key.
ListingAnswersPlaceholder ==
  (last.op = "read_orders" /\ SomeBroken)
    => /\ last.status = 200
       /\ \E v \in last.obs.ret :
            0 \in {v.supplier.id, v.item.id, v.unit.id}
       /\ \A r \in suppliers \cup items \cup units : r.id # 0
       /\ \A o \in orders : 0 \notin {o.supplier_id, o.item_id, o.unit_id}

\* The part of C7 about the store: listing orders changes no table.
ListingChangesNothing ==
  [][last'.op = "read_orders" => Store' = Store]_vars

\* C9: creating an order succeeds and persists exactly one new row with the
\* body's values and no approval status.
CreateOrderPersists ==
  last.op = "create_order"
    => /\ last.status = 200
       /\ Cardinality(orders) = last.obs.before + 1
       /\ \E o \in orders :
            /\ o.supplier_id = last.obs.body.supplier_id
            /\ o.item_id = last.obs.body.item_id
            /\ o.unit_id = last.obs.body.unit_id
            /\ o.quantity = last.obs.body.quantity
            /\ o.approval_status = None

\* ---------------------------------------- the life of an order, one by one
\* create_order, update_order, approve_order and reject_order, one request
\* at a time.
NextOrd ==
  \/ CreateOrder
  \/ UpdateOrder
  \/ ApproveOrder
  \/ RejectOrder

InitOrd ==
  /\ suppliers \in {{Ref(1, "a", TRUE)}, {Ref(1, "a", FALSE), Ref(2, "b", FALSE)}}
  /\ items = {Ref(1, "a", FALSE)}
  /\ units = {}
  /\ orders = {Ord(1, 1, 1, 1, 1)}
  /\ last = [op |-> "start", status |-> 0, detail |-> "", obs |-> <<>>]
  /\ inflight = [s \in Slots |-> Idle]

SpecOrd == InitOrd /\ [][NextOrd]_vars

\* The order of the id references, in the table, a row of the name.
Resolves(tbl, fk, name) == \E r \in tbl : r.id = fk /\ r.name = name

\* The table after a find-or-create of the name: unchanged when a row of the
\* name existed, one more row of that name otherwise.
FoundOrCreated(before, after, name) ==
  IF ByName(before, name) # {}
  THEN after = before
  ELSE \E r \in after : r.name = name /\ r \notin before /\ after = before \cup {r}

\* C12: update_order of an id that names no order is answered not-found and
\* creates no reference row; of an existing order it succeeds, the order's
\* three foreign keys reference rows of the request's names (created only
\* when no row of the name existed), and the persisted row holds the
\* request's value in every mutable field, payment schedule and purchase
\* cycle included.
UpdateOrderOverwrites ==
  [][last'.op = "update_order"
       => LET id == last'.obs.order_id
              body == last'.obs.body
          IN IF ById(orders, id) = {}
             THEN last'.status = 404 /\ Store' = Store
             ELSE /\ last'.status = 200
                  /\ FoundOrCreated(suppliers, suppliers', body.supplier_name)
                  /\ FoundOrCreated(items, items', body.item_name)
                  /\ FoundOrCreated(units, units', body.unit_name)
                  /\ \E o \in orders' :
                       /\ o.id = id
                       /\ Resolves(suppliers', o.supplier_id, body.supplier_name)
                       /\ Resolves(items', o.item_id, body.item_name)
                       /\ Resolves(units', o.unit_id, body.unit_name)
                       /\ Column(o, "quantity") = body.quantity
                       /\ body.payment_schedule
                            \in {Column(o, "payment_schedule"), Column(o, "payment_cycle")}
                       /\ body.purchase_cycle
                            \in {Column(o, "purchase_cycle"), Column(o, "payment_method")}]_vars

\* The part of C12 that the code keeps: not-found without a write, and on
\* success the names resolved and the mapped columns overwritten.
UpdateOrderResolvesNames ==
  [][last'.op = "update_order"
       => LET id == last'.obs.order_id
              body == last'.obs.body
          IN IF ById(orders, id) = {}
             THEN last'.status = 404 /\ Store' = Store
             ELSE /\ last'.status = 200
                  /\ FoundOrCreated(suppliers, suppliers', body.supplier_name)
                  /\ FoundOrCreated(items, items', body.item_name)
                  /\ FoundOrCreated(units, units', body.unit_name)
                  /\ \E o \in orders' :
                       /\ o.id = id
                       /\ Resolves(suppliers', o.supplier_id, body.supplier_name)
                       /\ Resolves(items', o.item_id, body.item_name)
                       /\ Resolves(units', o.unit_id, body.unit_name)
                       /\ Column(o, "quantity") = body.quantity]_vars

\* The approval columns of an order.
Approval(o) == <<o.approval_status, o.approved_by, o.approved_at, o.rejection_reason>>

\* The approval columns are consistent with the status.
ApprovalOk(o) ==
  /\ o.approval_status \in {None, "approved", "rejected"}
  /\ o.approval_status = "approved" => (o.approved_by = Approver /\ o.approved_at # None)
  /\ o.approval_status = "rejected" => (o.rejection_reason # None /\ o.approved_at # None)

\* The request that ended last was a successful approve / reject of the id.
Approved(ans, id) == ans.op = "approve_order" /\ ans.status = 200 /\ ans.obs.order_id = id
Rejected(ans, id) == ans.op = "reject_order" /\ ans.status = 200 /\ ans.obs.order_id = id

\* C13: in every state reached by create, update, approve and reject
\* requests each order's approval_status is none, "approved" or "rejected";
\* an approved order carries the fixed approver name and a timestamp, a
\* rejected one a reason and a timestamp.  Approve (with the password) and
\* reject of an existing order succeed from every status; the order then has
\* the status of that call, a reject stores the reason it was given, and no
\* other request touches the approval columns - so the status is that of the
\* last successful call and the reason that of the most recent reject.
ApprovalConsistent ==
  /\ [](\A o \in orders : ApprovalOk(o))
  /\ [][/\ \A o \in orders :
             /\ (last'.op = "approve_order" /\ last'.obs.order_id = o.id
                   /\ last'.obs.password = "admin") => last'.status = 200
             /\ (last'.op = "reject_order" /\ last'.obs.order_id = o.id)
                   => last'.status = 200
        /\ \A o \in orders, n \in orders' :
             n.id = o.id =>
               IF Approved(last', o.id)
               THEN /\ n.approval_status = "approved"
                    /\ n.approved_by = Approver
                    /\ n.approved_at # None
                    /\ n.rejection_reason = o.rejection_reason
               ELSE IF Rejected(last', o.id)
               THEN /\ n.approval_status = "rejected"
                    /\ n.rejection_reason = last'.obs.reason
                    /\ n.approved_at # None
                    /\ n.approved_by = o.approved_by
               ELSE Approval(n) = Approval(o)]_vars

\* C13 witness: an order that had been approved was rejected, and holds the
\* reason of that reject beside the approver name of the earlier approval.
RejectedAfterApproved ==
  /\ last.op = "reject_order"
  /\ last.status = 200
  /\ \E o \in orders :
       /\ o.id = last.obs.order_id
       /\ o.approval_status = "rejected"
       /\ o.approved_by = Approver
       /\ o.rejection_reason = last.obs.reason

\* -------------------------------------------- reference requests, one by one
\* What a create or update request found before it ran: live, a non-deleted
\* row (another one, for an update) holds the name; dead, rows hold the name
\* and all of them are soft-deleted.
Found(tbl, id, name) ==
  [live |-> \E r \in ByName(tbl, name) : r.id # id /\ ~r.is_deleted,
   dead |-> /\ \E r \in ByName(tbl, name) : r.id # id
            /\ \A r \in ByName(tbl, name) : r.id # id => r.is_deleted]

CreateSupplier ==
  \E name \in Names :
    \E res \in {create_ref(suppliers, name)} :
      /\ NoneInFlight
      /\ \A r \in res.tbl : r.id <= MaxId
      /\ suppliers' = res.tbl
      /\ Answer("create_supplier", res, [id |-> 0, name |-> name, found |-> Found(suppliers, 0, name)])
      /\ UNCHANGED <<items, units, orders, inflight>>

CreateItem ==
  \E name \in Names :
    \E res \in {create_ref(items, name)} :
      /\ NoneInFlight
      /\ \A r \in res.tbl : r.id <= MaxId
      /\ items' = res.tbl
      /\ Answer("create_item", res, [id |-> 0, name |-> name, found |-> Found(items, 0, name)])
      /\ UNCHANGED <<suppliers, units, orders, inflight>>

CreateUnit ==
  \E name \in Names :
    \E res \in {create_ref(units, name)} :
      /\ NoneInFlight
      /\ \A r \in res.tbl : r.id <= MaxId
      /\ units' = res.tbl
      /\ Answer("create_unit", res, [id |-> 0, name |-> name, found |-> Found(units, 0, name)])
      /\ UNCHANGED <<suppliers, items, orders, inflight>>

UpdateSupplier ==
  \E id \in RefIds, name \in Names :
    \E res \in {update_ref(suppliers, id, name)} :
      /\ NoneInFlight
      /\ suppliers' = res.tbl
      /\ Answer("update_supplier", res, [id |-> id, name |-> name, found |-> Found(suppliers, id, name)])
      /\ UNCHANGED <<items, units, orders, inflight>>

UpdateItem ==
  \E id \in RefIds, name \in Names :
    \E res \in {update_ref(items, id, name)} :
      /\ NoneInFlight
      /\ items' = res.tbl
      /\ Answer("update_item", res, [id |-> id, name |-> name, found |-> Found(items, id, name)])
      /\ UNCHANGED <<suppliers, units, orders, inflight>>

UpdateUnit ==
  \E id \in RefIds, name \in Names :
    \E res \in {update_unit(units, id, name)} :
      /\ NoneInFlight
      /\ units' = res.tbl
      /\ Answer("update_unit", res, [id |-> id, name |-> name, found |-> Found(units, id, name)])
      /\ UNCHANGED <<suppliers, items, orders, inflight>>

BulkDeleteSuppliers ==
  \E ids \in SUBSET RefIds :
    \E res \in {bulk_delete_ref(suppliers, ids)} :
      /\ NoneInFlight
      /\ suppliers' = res.tbl
      /\ Answer("bulk_delete_suppliers", res, [ids |-> ids])
      /\ UNCHANGED <<items, units, orders, inflight>>

BulkDeleteItems ==
  \E ids \in SUBSET RefIds :
    \E res \in {bulk_delete_ref(items, ids)} :
      /\ NoneInFlight
      /\ items' = res.tbl
      /\ Answer("bulk_delete_items", res, [ids |-> ids])
      /\ UNCHANGED <<suppliers, units, orders, inflight>>

BulkDeleteUnits ==
  \E ids \in SUBSET RefIds :
    \E res \in {bulk_delete_ref(units, ids)} :
      /\ NoneInFlight
      /\ units' = res.tbl
      /\ Answer("bulk_delete_units", res, [ids |-> ids])
      /\ UNCHANGED <<suppliers, items, orders, inflight>>

NextRef ==
  \/ CreateSupplier
  \/ CreateItem
  \/ CreateUnit
  \/ UpdateSupplier
  \/ UpdateItem
  \/ UpdateUnit
  \/ BulkDeleteSuppliers
  \/ BulkDeleteItems
  \/ BulkDeleteUnits

\* The reference handlers, one request at a time, beside one stored order.
InitRef == Init /\ orders = {Ord(1, 1, 1, 1, 1)}

SpecRef == InitRef /\ [][NextRef]_vars

\* C4: creating a supplier under the name of a non-deleted supplier is
\* answered 400 "already_exists" and adds no row; under a name that only
\* soft-deleted suppliers hold it succeeds and adds a row.
CreateSupplierConflictOrReuse ==
  [][last'.op = "create_supplier"
       => /\ last'.obs.found.live
               => /\ last'.status = 400
                  /\ last'.detail = "already_exists"
                  /\ suppliers' = suppliers
          /\ last'.obs.found.dead
               => /\ last'.status = 200
                  /\ Cardinality(suppliers') = Cardinality(suppliers) + 1]_vars

\* The first half of C4 alone: the name of a non-deleted supplier is refused
\* with 400 "already_exists" and no row is added.
CreateSupplierConflict ==
  [][(last'.op = "create_supplier" /\ last'.obs.found.live)
       => /\ last'.status = 400
          /\ last'.detail = "already_exists"
          /\ suppliers' = suppliers]_vars

\* C8: updating a unit to the name of another non-deleted unit is answered
\* 400 "already_exists" and leaves the units as they were.
UpdateUnitConflict ==
  [][(last'.op = "update_unit" /\ last'.obs.found.live)
       => /\ last'.status = 400
          /\ last'.detail = "already_exists"
          /\ units' = units]_vars

\* The part of C8 about the store: a conflicting update changes no unit.
UpdateUnitConflictChangesNothing ==
  [][(last'.op = "update_unit" /\ last'.obs.found.live) => units' = units]_vars

\* ------------------------------------------------- requests side by side
\* Two requests at a time, each in its own session.  A SELECT sees the
\* persisted store, or the session's own working copy once the session has
\* written.  SQLite lets one session write at a time: from its first flush
\* to its commit or rollback a session holds the write lock, and the INSERT,
\* UPDATE or commit of another session waits for it (or gives up: "database
\* is locked").
Tables == {"suppliers", "items", "units"}

\* The name the requests side by side contend for.
Contested == {"b"}
TableOrder == <<"suppliers", "items", "units">>

\* The session's view of the store.
Seen(slot) == IF inflight[slot].wrote THEN inflight[slot].work ELSE Store

\* No other session holds the write lock.
LockFree(slot) == \A o \in Slots \ {slot} : ~inflight[o].wrote

\* The request of the slot ends: its answer, and the session is released.
\* What is kept of the request is the race it lost, if any, and otherwise
\* whether its session had flushed rows before it ended.
End(slot, op, status, detail, obs) ==
  /\ last' = [op |-> op, status |-> status, detail |-> detail,
              obs |-> IF obs.raced THEN obs
                      ELSE [raced |-> FALSE, flushed |-> inflight[slot].wrote]]
  /\ inflight' = [inflight EXCEPT ![slot] = Idle]

\* create_supplier / create_item / create_unit up to the existence lookup.
BeginCreate(slot) ==
  \E t \in Tables, name \in Contested :
    /\ inflight[slot].pc = "idle"
    /\ IF ExistingByName(Store[t], name) # {}
       THEN End(slot, "create", 400, "already_exists",
                [tbl |-> t, name |-> name, raced |-> FALSE])
       ELSE /\ inflight' = [inflight EXCEPT ![slot] =
                              [pc |-> "commit", op |-> "create", tbl |-> t,
                               name |-> name, wrote |-> FALSE,
                               free |-> ByName(Store[t], name) = {}]]
            /\ UNCHANGED last
    /\ UNCHANGED <<suppliers, items, units, orders>>

\* create_*: db.add, db.commit (the INSERT and the commit), or the rollback.
FinishCreate(slot) ==
  LET r == inflight[slot] IN
    /\ r.pc = "commit" /\ r.op = "create"
    /\ LockFree(slot)
    /\ \E res \in {create_ref_commit(Store[r.tbl], r.name)} :
         /\ \A x \in res.tbl : x.id <= MaxId
         /\ SetStore([Store EXCEPT ![r.tbl] = res.tbl])
         /\ End(slot, "create", res.status, res.detail,
                [tbl |-> r.tbl, name |-> r.name,
                 raced |-> r.free /\ ByName(Store[r.tbl], r.name) # {}])

\* update_supplier / update_item / update_unit up to their lookups.
BeginUpdate(slot) ==
  \E t \in Tables, id \in 1..MaxId, name \in Contested :
    /\ inflight[slot].pc = "idle"
    /\ IF ById(Store[t], id) = {}
       THEN End(slot, "update", 404, "not found",
                [tbl |-> t, name |-> name, raced |-> FALSE])
       ELSE IF t = "units" /\ OtherByName(Store[t], id, name) # {}
       THEN End(slot, "update", 400, "already_exists",
                [tbl |-> t, name |-> name, raced |-> FALSE])
       ELSE /\ inflight' = [inflight EXCEPT ![slot] =
                              [pc |-> "commit", op |-> "update", tbl |-> t, id |-> id,
                               name |-> name, wrote |-> FALSE,
                               free |-> \A x \in ByName(Store[t], name) : x.id = id]]
            /\ UNCHANGED last
    /\ UNCHANGED <<suppliers, items, units, orders>>

\* update_*: db.commit (the UPDATE and the commit).  An UPDATE that matches
\* no row (the row is gone) raises StaleDataError.
FinishUpdate(slot) ==
  LET r == inflight[slot] IN
    /\ r.pc = "commit" /\ r.op = "update"
    /\ LockFree(slot)
    /\ \E res \in {LET tbl == Store[r.tbl]
                       work == Renamed(tbl, r.id, r.name)
                   IN IF ById(tbl, r.id) = {}
                      THEN RefResp(500, "StaleDataError", Close(tbl, work))
                      ELSE IF IntegrityOk(work)
                      THEN RefResp(200, "ok", Commit(work))
                      ELSE RefResp(500, "IntegrityError", Close(tbl, work))} :
         /\ SetStore([Store EXCEPT ![r.tbl] = res.tbl])
         /\ End(slot, "update", res.status, res.detail,
                [tbl |-> r.tbl, name |-> r.name,
                 raced |-> r.free /\ \E x \in ByName(Store[r.tbl], r.name) : x.id # r.id])

\* update_order up to the lookup of the order.  names: supplier_name,
\* item_name, unit_name in turn; ids: the ids resolved so far.
BeginUpdateOrder(slot) ==
  \E id \in 1..MaxOrderId, names \in {<<n, n, n>> : n \in Contested} :
    /\ inflight[slot].pc = "idle"
    /\ IF ById(orders, id) = {}
       THEN End(slot, "update_order", 404, "Order not found",
                [tbl |-> "orders", name |-> names[1], raced |-> FALSE])
       ELSE /\ inflight' = [inflight EXCEPT ![slot] =
                              [pc |-> "look", op |-> "update_order", id |-> id,
                               names |-> names, k |-> 1, ids |-> <<0, 0, 0>>,
                               wrote |-> FALSE, work |-> <<>>, raced |-> FALSE]]
            /\ UNCHANGED last
    /\ UNCHANGED <<suppliers, items, units, orders>>

\* After table k is resolved: the next table, or the commit.
Advance(r, id) ==
  [r EXCEPT !.ids[r.k] = id,
            !.k = IF r.k = 3 THEN 3 ELSE r.k + 1,
            !.pc = IF r.k = 3 THEN "commit" ELSE "look"]

\* update_order: the lookup by name in table k.  A row found is taken; a
\* name not found is inserted at once when the session already holds the
\* write lock, and otherwise the INSERT is still to reach the database.
LookUpdateOrder(slot) ==
  LET r == inflight[slot]
      t == TableOrder[r.k]
      tbl == Seen(slot)[t]
      f == FindOrCreate(tbl, r.names[r.k])
  IN /\ r.pc = "look"
     /\ \A x \in f.tbl : x.id <= MaxId
     /\ inflight' = [inflight EXCEPT ![slot] =
          IF f.created = 0 THEN Advance(r, f.id)
          ELSE IF r.wrote THEN [Advance(r, f.id) EXCEPT !.work[t] = f.tbl]
          ELSE [r EXCEPT !.pc = "insert"]]
     /\ UNCHANGED <<suppliers, items, units, orders, last>>

\* update_order: db.add(row); db.flush() for table k, the session's first
\* write.  A name that another session committed since the lookup fails the
\* UNIQUE constraint: IntegrityError, which update_order does not catch.
InsertUpdateOrder(slot) ==
  LET r == inflight[slot]
      t == TableOrder[r.k]
      tbl == Store[t]
      work == tbl \cup {Ref(NewId(tbl), r.names[r.k], FALSE)}
  IN /\ r.pc = "insert"
     /\ LockFree(slot)
     /\ \A x \in work : x.id <= MaxId
     /\ IF IntegrityOk(work)
        THEN /\ inflight' = [inflight EXCEPT ![slot] =
                  [Advance(r, NewId(tbl)) EXCEPT !.wrote = TRUE,
                                                 !.work = [Store EXCEPT ![t] = work]]]
             /\ UNCHANGED last
        ELSE End(slot, "update_order", 500, "IntegrityError",
                 [tbl |-> t, name |-> r.names[r.k], raced |-> TRUE])
     /\ UNCHANGED <<suppliers, items, units, orders>>

\* update_order: the fields and foreign keys are set; db.commit().
CommitUpdateOrder(slot) ==
  LET r == inflight[slot]
      v == Seen(slot)
  IN /\ r.pc = "commit" /\ r.op = "update_order"
     /\ LockFree(slot)
     /\ IF ById(v.orders, r.id) = {}
        THEN /\ End(slot, "update_order", 500, "StaleDataError",
                    [tbl |-> "orders", name |-> r.names[1], raced |-> FALSE])
             /\ SetStore(Close(Store, v))
        ELSE /\ SetStore(Commit([v EXCEPT !.orders =
                       {IF o.id = r.id
                        THEN [o EXCEPT !.supplier_id = r.ids[1], !.item_id = r.ids[2],
                                       !.unit_id = r.ids[3]]
                        ELSE o : o \in @}]))
             /\ End(slot, "update_order", 200, "ok",
                    [tbl |-> "orders", name |-> r.names[1], raced |-> FALSE])

\* upload_orders of a sheet with one data row, up to the supplier lookup.
BeginUpload(slot) ==
  \E row \in {x \in SampleRows : x.supplier \in Contested} :
    /\ inflight[slot].pc = "idle"
    /\ inflight' = [inflight EXCEPT ![slot] =
                      [pc |-> "rows", op |-> "upload_orders", row |-> row,
                       wrote |-> FALSE,
                       found |-> ByName(suppliers, row.supplier) # {}]]
    /\ UNCHANGED <<suppliers, items, units, orders, last>>

\* upload_orders: the flushes of the row, the order's construction and the
\* except branch.  The supplier is inserted when the lookup found none; the
\* rest of the row runs under the session's write lock.
FinishUpload(slot) ==
  LET r == inflight[slot]
      raced == ~r.found /\ ByName(suppliers, r.row.supplier) # {}
  IN /\ r.pc = "rows"
     /\ LockFree(slot)
     /\ \E res \in {IF raced
                    THEN [status |-> 500, detail |-> "IntegrityError",
                          store |-> Rollback(Store, Store)]
                    ELSE upload_orders(Store, [xlsx |-> TRUE, loads |-> TRUE,
                                               rows |-> <<r.row>>])} :
          /\ Bounded(res.store)
          /\ SetStore(res.store)
          /\ End(slot, "upload_orders", res.status, res.detail,
                 [tbl |-> "suppliers", name |-> r.row.supplier, raced |-> raced])

\* A write that waited for the lock longer than the busy timeout:
\* OperationalError "database is locked", answered 500; the session ends
\* without a commit.
LockTimeout(slot) ==
  LET r == inflight[slot] IN
    /\ r.pc \in {"commit", "insert", "rows"}
    /\ ~LockFree(slot)
    /\ ~r.wrote
    /\ End(slot, r.op, 500, "database is locked",
           [tbl |-> "", name |-> "", raced |-> FALSE])
    /\ UNCHANGED <<suppliers, items, units, orders>>

NextConc ==
  \E slot \in Slots :
    \/ BeginCreate(slot)
    \/ FinishCreate(slot)
    \/ BeginUpdate(slot)
    \/ FinishUpdate(slot)
    \/ BeginUpdateOrder(slot)
    \/ LookUpdateOrder(slot)
    \/ InsertUpdateOrder(slot)
    \/ CommitUpdateOrder(slot)
    \/ BeginUpload(slot)
    \/ FinishUpload(slot)
    \/ LockTimeout(slot)

InitConc ==
  /\ suppliers \in InitRefTables
  /\ last = [op |-> "start", status |-> 0, detail |-> "",
             obs |-> [raced |-> FALSE, flushed |-> FALSE]]
  /\ inflight = [s \in Slots |-> Idle]
  /\ items = {Ref(1, "a", FALSE)}
  /\ units = {Ref(1, "a", FALSE)}
  /\ orders = {Ord(1, 1, 1, 1, 1)}

SpecConc == InitConc /\ [][NextConc]_vars

\* C10: in every persisted state no two non-deleted rows of a reference
\* table share a name, also when two requests both passed their lookup for
\* a name before either of them committed.
NameUnique ==
  \A tbl \in {suppliers, items, units} :
    \A r1 \in tbl, r2 \in tbl :
      (r1.name = r2.name /\ ~r1.is_deleted /\ ~r2.is_deleted) => r1 = r2

\* C10 witness: a request passed its lookup of a name, another request
\* committed a row of that name first, and the request ended in an error
\* with one row of the name persisted.
LostTheRace ==
  /\ last.op \in {"create", "update", "update_order"}
  /\ last.obs.raced
  /\ last.status >= 400
  /\ Cardinality(ByName(Store[last.obs.tbl], last.obs.name)) = 1
\* ------------------------------------------- every handler, side by side
\* Every handler beside an update_order request.  update_order runs step by
\* step in one session, as in SpecConc; the other handlers run from their
\* lookup to their commit in one step of the other session, at any point of
\* the update_order request at which no write lock is held against them.
Now == CHOOSE t \in Times : TRUE
Reason == CHOOSE r \in Reasons : TRUE
Stepwise == CHOOSE s \in Slots : TRUE

\* A session that is about to write needs the write lock.
MayWrite(slot, st) == st # Store => LockFree(slot)

Quiet == [raced |-> FALSE]

\* The tables the create, update-by-id and bulk-delete requests of this
\* specification address: suppliers (update_supplier, which update_item
\* repeats word for word) and units (update_unit, which has its own text).
\* The items table is written by update_order.
Touched == {"suppliers", "units"}

\* One whole request of a session: its answer and its effect on the store.
Whole(slot, op, res) ==
  /\ slot # Stepwise
  /\ inflight[slot].pc = "idle"
  /\ MayWrite(slot, res.store)
  /\ Bounded(res.store)
  /\ SetStore(res.store)
  /\ End(slot, op, res.status, res.detail, Quiet)

\* The answer of a reference handler as an answer about the whole store.
OnTable(t, res) ==
  [status |-> res.status, detail |-> res.detail, store |-> [Store EXCEPT ![t] = res.tbl]]

CreateIn(slot) ==
  \E t \in Touched, name \in Contested :
    \E res \in {OnTable(t, create_ref(Store[t], name))} :
      Whole(slot, "create", res)

UpdateIn(slot) ==
  \E t \in Touched, id \in 1..MaxId, name \in Contested :
    \E res \in {OnTable(t, IF t = "units" THEN update_unit(Store[t], id, name)
                                           ELSE update_ref(Store[t], id, name))} :
      Whole(slot, "update", res)

BulkDeleteIn(slot) ==
  \E t \in Touched, ids \in SUBSET (1..MaxId) :
    \E res \in {OnTable(t, bulk_delete_ref(Store[t], ids))} :
      Whole(slot, "bulk_delete", res)

UploadIn(slot) ==
  \E row \in {x \in SampleRows : x.supplier \in Contested} :
    \E res \in {upload_orders(Store, [xlsx |-> TRUE, loads |-> TRUE, rows |-> <<row>>])} :
      Whole(slot, "upload_orders", res)

CreateOrderIn(slot) ==
  \E body \in {[supplier_id |-> 1, item_id |-> 1, unit_id |-> 1, quantity |-> 1]} :
    \E res \in {create_order(Store, body)} :
      Whole(slot, "create_order", res)

ReadOrdersIn(slot) ==
  \E res \in {read_orders(Store)} :
    Whole(slot, "read_orders", res)

DeleteOrdersIn(slot) ==
  \E ids \in SUBSET (1..MaxOrderId) :
    \E res \in {delete_orders(Store, ids)} :
      Whole(slot, "delete_orders", res)

ApproveOrderIn(slot) ==
  \E id \in 1..MaxOrderId, pw \in Passwords :
    \E res \in {approve_order(Store, id, pw, Now)} :
      Whole(slot, "approve_order", res)

RejectOrderIn(slot) ==
  \E id \in 1..MaxOrderId :
    \E res \in {reject_order(Store, id, Reason, Now)} :
      Whole(slot, "reject_order", res)

NextAll ==
  \E slot \in Slots :
    \/ slot = Stepwise /\ BeginUpdateOrder(slot)
    \/ LookUpdateOrder(slot)
    \/ InsertUpdateOrder(slot)
    \/ CommitUpdateOrder(slot)
    \/ CreateIn(slot)
    \/ UpdateIn(slot)
    \/ BulkDeleteIn(slot)
    \/ UploadIn(slot)
    \/ CreateOrderIn(slot)
    \/ ReadOrdersIn(slot)
    \/ DeleteOrdersIn(slot)
    \/ ApproveOrderIn(slot)
    \/ RejectOrderIn(slot)

\* A store in which no row is soft-deleted.
InitAll ==
  /\ suppliers = {Ref(1, "a", FALSE)}
  /\ items = {Ref(1, "a", FALSE)}
  /\ units = {Ref(1, "a", FALSE)}
  /\ orders = {Ord(1, 1, 1, 1, 1)}
  /\ last = [op |-> "start", status |-> 0, detail |-> "",
             obs |-> [raced |-> FALSE, flushed |-> FALSE]]
  /\ inflight = [s \in Slots |-> Idle]

SpecAll == InitAll /\ [][NextAll]_vars

\* C11: a request that ends in an error response changes no table: the
\* persisted store after it is the store before it, also when the request
\* was an update_order that had flushed new reference rows before it failed.
ErrorChangesNothing ==
  [][last'.status >= 400 => Store' = Store]_vars

\* C11 witness: an update_order request flushed a reference row, failed at
\* its commit, and no row of the name it had flushed is persisted.
UpdateOrderFailedAfterFlush ==
  /\ last.op = "update_order"
  /\ last.status = 500
  /\ ~last.obs.raced
  /\ last.obs.flushed
  /\ \A t \in Tables : ByName(Store[t], "b") = {}
\* C14: from a store without soft-deleted rows, no request of any handler
\* leaves a supplier, item, unit or order with is_deleted true: the bulk
\* deletes remove rows, and no handler writes the column with another value
\* than false.
NoSoftDelete ==
  \A r \in suppliers \cup items \cup units \cup orders : ~r.is_deleted

\* C14 witness: a bulk delete removed the supplier or the unit an order
\* references; the order is still there and references an id of no row.
OrderLeftDangling ==
  /\ last.op = "bulk_delete"
  /\ last.status = 200
  /\ \E o \in orders :
       o.supplier_id \notin Ids(suppliers) \/ o.unit_id \notin Ids(units)
====
